---- MODULE Spec2Model ----
(***************************************************************************)
(* The diagnostics-driven patchers of helper_scripts (fix_indentation.py   *)
(* and use_new_syntax.py) and the CRLF converter (convert_crlf_to_lf.py).  *)
(* Text is a sequence of one-character strings; a file is its status and   *)
(* its content; a diagnostics document is a tagged JSON value.             *)
(***************************************************************************)
EXTENDS Integers, Sequences, FiniteSets, TLC

VARIABLES
    tool,        \* which script runs: "indent" | "syntax" | "crlf"
    platform,    \* "posix" | "nt": decides os.sep and os.linesep
    doc,         \* problems.json: [kind |-> "missing" | "invalid" | "json", value |-> ...]
    fs,          \* path -> [status, content]
    pc,          \* "start" | "fixing" | "done" | "failed"
    work,        \* grouped_problems (indent) or fixes (syntax), in iteration order
    idx,         \* next element of work
    run,         \* 1 or 2: the run in progress
    files_fixed, \* main: files_fixed
    total_fixes, \* main: total_fixes
    exit_code,   \* process exit code of the last ended run, -1 while running
    last,        \* what the last handler call did (history)
    hist         \* per-run history: writes, edits written, handler calls, fs after run 1

vars == <<tool, platform, doc, fs, pc, work, idx, run, files_fixed, total_fixes,
          exit_code, last, hist>>

----------------------------------------------------------------------------
(* Characters and text *)

SP == " "
LF == "\n"
CR == "\r"
SLASH == "/"
BACKSLASH == "\\"

Spaces(n) == [i \in 1..n |-> SP]

RECURSIVE Concat(_)
Concat(seqs) ==
    IF seqs = <<>> THEN <<>> ELSE Head(seqs) \o Concat(Tail(seqs))

\* str.startswith(prefix)
StartsWith(s, prefix) ==
    Len(s) >= Len(prefix) /\ SubSeq(s, 1, Len(prefix)) = prefix

\* `needle in s` for strings
Contains(s, needle) ==
    \E i \in 0..(Len(s) - Len(needle)) : SubSeq(s, i + 1, i + Len(needle)) = needle

\* s[a:b] with Python's handling of negative and oversized indices
PyIndex(n, len) ==
    IF n < 0 THEN (IF n + len < 0 THEN 0 ELSE n + len)
    ELSE (IF n > len THEN len ELSE n)

PySlice(s, a, b) == SubSeq(s, PyIndex(a, Len(s)) + 1, PyIndex(b, Len(s)))

\* str.replace(old, new) for a one-character old
RECURSIVE ReplaceChar(_, _, _)
ReplaceChar(s, old, new) ==
    IF s = <<>> THEN <<>>
    ELSE (IF Head(s) = old THEN new ELSE <<Head(s)>>) \o ReplaceChar(Tail(s), old, new)

\* line.lstrip(' ')
RECURSIVE Lstrip(_)
Lstrip(line) ==
    IF line # <<>> /\ Head(line) = SP THEN Lstrip(Tail(line)) ELSE line

\* the number of leading spaces of a line
LeadingSpaces(line) == Len(line) - Len(Lstrip(line))

\* str.lstrip('/')
RECURSIVE LstripSlash(_)
LstripSlash(s) ==
    IF s # <<>> /\ Head(s) = SLASH THEN LstripSlash(Tail(s)) ELSE s

----------------------------------------------------------------------------
(* Reading and writing text files *)

\* open(newline='').readlines(): lines end at \n, \r\n or \r, terminators kept
RECURSIVE ReadLinesAcc(_, _, _, _)
ReadLinesAcc(s, i, cur, acc) ==
    IF i > Len(s) THEN (IF cur = <<>> THEN acc ELSE Append(acc, cur))
    ELSE IF s[i] = LF THEN ReadLinesAcc(s, i + 1, <<>>, Append(acc, Append(cur, LF)))
    ELSE IF s[i] = CR THEN
        (IF i < Len(s) /\ s[i + 1] = LF
         THEN ReadLinesAcc(s, i + 2, <<>>, Append(acc, cur \o <<CR, LF>>))
         ELSE ReadLinesAcc(s, i + 1, <<>>, Append(acc, Append(cur, CR))))
    ELSE ReadLinesAcc(s, i + 1, Append(cur, s[i]), acc)

ReadLines(content) == ReadLinesAcc(content, 1, <<>>, <<>>)

\* text-mode read with newline=None: \r\n and \r become \n
RECURSIVE UniversalNewlines(_)
UniversalNewlines(s) ==
    IF s = <<>> THEN <<>>
    ELSE IF Head(s) = CR THEN
        (IF Len(s) >= 2 /\ s[2] = LF
         THEN <<LF>> \o UniversalNewlines(SubSeq(s, 3, Len(s)))
         ELSE <<LF>> \o UniversalNewlines(Tail(s)))
    ELSE <<Head(s)>> \o UniversalNewlines(Tail(s))

\* str.splitlines(): as ReadLines, terminators dropped
RECURSIVE SplitLinesAcc(_, _, _, _)
SplitLinesAcc(s, i, cur, acc) ==
    IF i > Len(s) THEN (IF cur = <<>> THEN acc ELSE Append(acc, cur))
    ELSE IF s[i] = LF THEN SplitLinesAcc(s, i + 1, <<>>, Append(acc, cur))
    ELSE IF s[i] = CR THEN
        (IF i < Len(s) /\ s[i + 1] = LF
         THEN SplitLinesAcc(s, i + 2, <<>>, Append(acc, cur))
         ELSE SplitLinesAcc(s, i + 1, <<>>, Append(acc, cur)))
    ELSE SplitLinesAcc(s, i + 1, Append(cur, s[i]), acc)

SplitLines(text) == SplitLinesAcc(text, 1, <<>>, <<>>)

\* os.linesep
LineSep(plat) == IF plat = "nt" THEN <<CR, LF>> ELSE <<LF>>

\* os.sep
OsSep(plat) == IF plat = "nt" THEN <<BACKSLASH>> ELSE <<SLASH>>

\* text-mode write with newline=None: every \n becomes os.linesep
TextWrite(text, plat) == ReplaceChar(text, LF, LineSep(plat))

\* '\n'.join(lines) + '\n'
RECURSIVE JoinLF(_)
JoinLF(lines) ==
    IF lines = <<>> THEN <<>>
    ELSE IF Len(lines) = 1 THEN Head(lines)
    ELSE Head(lines) \o <<LF>> \o JoinLF(Tail(lines))

\* the file a path names: on nt both separators name the same file
CanonPath(path, plat) ==
    IF plat = "nt" THEN ReplaceChar(path, BACKSLASH, <<SLASH>>) ELSE path

\* os.path.exists / Path.exists
Exists(files, path, plat) ==
    /\ CanonPath(path, plat) \in DOMAIN files
    /\ files[CanonPath(path, plat)].status # "missing"

----------------------------------------------------------------------------
(* The diagnostics document.  A JSON value is a tagged record:              *)
(*   [t |-> "array", items |-> <<...>>]   [t |-> "object", keys |-> <<...>>] *)
(*   [t |-> "string", s |-> <<chars>>]    [t |-> "number"]   [t |-> "null"]  *)
(* A diagnostic entry is [t |-> "entry", owner, code, resource, message,    *)
(* startLineNumber, startColumn, endColumn]; an absent key is               *)
(* [t |-> "absent"] (owner: the string NoOwner).  A message is kept by what *)
(* the scripts' patterns extract from it: [t |-> "string", shape |->       *)
(* "indent", expected, found], [.. shape |-> "canonical", old, new] or      *)
(* [.. shape |-> "other"].                                                  *)

NoOwner == "<absent>"
Absent == [t |-> "absent"]
Tailwind == "tailwindcss-intellisense"
Canonical == "suggestCanonicalClasses"

\* `for problem in problems`: the elements Python iterates over, or TypeError
Iterate(value) ==
    CASE value.t = "array" -> [raised |-> FALSE, items |-> value.items]
      [] value.t = "object" ->
            [raised |-> FALSE,
             items |-> [i \in 1..Len(value.keys) |-> [t |-> "string", s |-> value.keys[i]]]]
      [] value.t = "string" ->
            [raised |-> FALSE,
             items |-> [i \in 1..Len(value.s) |-> [t |-> "string", s |-> <<value.s[i]>>]]]
      [] OTHER -> [raised |-> TRUE, items |-> <<>>]

\* re.match(r'Expected indentation of (\d+) spaces but found (\d+)\.', message)
parse_indentation_message(message) ==
    IF message.t = "string" /\ message.shape = "indent"
    THEN [matched |-> TRUE, expected |-> message.expected, found |-> message.found]
    ELSE [matched |-> FALSE, expected |-> 0, found |-> 0]

\* problem.get('code', {}).get('value') != 'indent': "raise", "skip" or "indent"
IndentKind(problem) ==
    IF problem.t # "entry" THEN "raise"
    ELSE CASE problem.code.t = "absent" -> "skip"
           [] problem.code.t = "object" ->
                 (IF problem.code.value = "indent" THEN "indent" ELSE "skip")
           [] OTHER -> "raise"

\* resource with the '/K:' prefix rewritten, then '/' replaced by os.sep
IndentFilePath(problem, plat) ==
    LET raw == IF problem.resource.t = "absent" THEN <<>> ELSE problem.resource.s
        resource == IF StartsWith(raw, <<SLASH, "K", ":">>)
                    THEN <<"K", ":">> \o SubSeq(raw, 4, Len(raw))
                    ELSE raw
    IN  ReplaceChar(resource, SLASH, OsSep(plat))

\* grouped[file_path].append(...): grouped keeps the order of first insertion
AddToGroup(grouped, file_path, entry) ==
    IF \E i \in 1..Len(grouped) : grouped[i].file_path = file_path
    THEN [i \in 1..Len(grouped) |->
            IF grouped[i].file_path = file_path
            THEN [grouped[i] EXCEPT !.problems = Append(@, entry)]
            ELSE grouped[i]]
    ELSE Append(grouped, [file_path |-> file_path, problems |-> <<entry>>])

RECURSIVE GroupLoop(_, _, _)
GroupLoop(items, plat, grouped) ==
    IF items = <<>> THEN [raised |-> FALSE, grouped |-> grouped]
    ELSE LET problem == Head(items)
             kind == IndentKind(problem)
             parsed == parse_indentation_message(
                          IF problem.message.t = "absent"
                          THEN [t |-> "string", shape |-> "other"]
                          ELSE problem.message)
         IN  CASE kind = "raise" -> [raised |-> TRUE, grouped |-> <<>>]
               [] kind = "skip" -> GroupLoop(Tail(items), plat, grouped)
               [] OTHER ->
                    IF ~parsed.matched THEN GroupLoop(Tail(items), plat, grouped)
                    ELSE GroupLoop(Tail(items), plat,
                            AddToGroup(grouped, IndentFilePath(problem, plat),
                                [line |-> problem.startLineNumber,
                                 expected |-> parsed.expected,
                                 found |-> parsed.found]))

group_indentation_problems(problems, plat) ==
    IF Iterate(problems).raised THEN [raised |-> TRUE, grouped |-> <<>>]
    ELSE GroupLoop(Iterate(problems).items, plat, <<>>)

\* owner == 'tailwindcss-intellisense' and code == 'suggestCanonicalClasses'
SyntaxKind(problem) ==
    IF problem.t # "entry" THEN "raise"
    ELSE IF /\ problem.owner = Tailwind
            /\ problem.code.t = "string"
            /\ problem.code.s = Canonical
         THEN "canonical" ELSE "skip"

\* re.match(r'^/[a-zA-Z]:/', raw_resource) -> raw_resource.lstrip('/')
Letters == {"K", "k", "C", "c", "a", "b", "f", "g"}
SyntaxFilePath(raw) ==
    IF Len(raw) >= 4 /\ raw[1] = SLASH /\ raw[2] \in Letters /\ raw[3] = ":" /\ raw[4] = SLASH
    THEN LstripSlash(raw) ELSE raw

RECURSIVE ParseLoop(_, _)
ParseLoop(items, fixes) ==
    IF items = <<>> THEN [raised |-> FALSE, fixes |-> fixes]
    ELSE LET problem == Head(items)
             kind == SyntaxKind(problem)
         IN  CASE kind = "raise" -> [raised |-> TRUE, fixes |-> <<>>]
               [] kind = "skip" -> ParseLoop(Tail(items), fixes)
               [] OTHER ->
                    \* problem['resource'], problem['message']: KeyError when absent
                    IF problem.resource.t = "absent" \/ problem.message.t = "absent"
                    THEN [raised |-> TRUE, fixes |-> <<>>]
                    ELSE IF problem.message.shape # "canonical"
                    THEN ParseLoop(Tail(items), fixes)
                    ELSE ParseLoop(Tail(items),
                            Append(fixes,
                                [file_path |-> SyntaxFilePath(problem.resource.s),
                                 line |-> problem.startLineNumber - 1,
                                 col_start |-> problem.startColumn - 1,
                                 col_end |-> problem.endColumn - 1,
                                 old_class |-> problem.message.old,
                                 new_class |-> problem.message.new]))

\* json.load raises on a document that is no JSON
parse_fixes(document) ==
    IF document.kind # "json" THEN [raised |-> TRUE, fixes |-> <<>>]
    ELSE IF Iterate(document.value).raised THEN [raised |-> TRUE, fixes |-> <<>>]
    ELSE ParseLoop(Iterate(document.value).items, <<>>)

----------------------------------------------------------------------------
(* fix_indentation.py: the patcher *)

\* mutant: the leading spaces are not compared with `found`
fix_line_indentation_NoCheck(line, expected, found) ==
    Spaces(expected) \o Lstrip(line)

fix_line_indentation(line, expected, found) ==
    LET leading_spaces == Len(line) - Len(Lstrip(line))
    IN  IF leading_spaces = found THEN Spaces(expected) \o Lstrip(line) ELSE line

\* sorted(problems, key=lambda p: p['line'], reverse=True): stable, so problems
\* of one line keep their order in the document
RECURSIVE InsertByLineDesc(_, _)
InsertByLineDesc(sorted, p) ==
    IF sorted = <<>> THEN <<p>>
    ELSE IF Head(sorted).line >= p.line
         THEN <<Head(sorted)>> \o InsertByLineDesc(Tail(sorted), p)
         ELSE <<p>> \o sorted

RECURSIVE sorted_problems(_)
sorted_problems(problems) ==
    IF problems = <<>> THEN <<>>
    ELSE InsertByLineDesc(sorted_problems(SubSeq(problems, 1, Len(problems) - 1)),
                          problems[Len(problems)])

\* mutant: every in-range problem marks the file modified ("if fixed_line !=
\* original_line" dropped)
RECURSIVE FixLoop_NoCompare(_, _, _)
FixLoop_NoCompare(lines, problems, log) ==
    IF problems = <<>> THEN [lines |-> lines, log |-> log]
    ELSE LET p == Head(problems)
             in_range == 1 <= p.line /\ p.line <= Len(lines)
             original_line == IF in_range THEN lines[p.line] ELSE <<>>
             fixed_line == IF LeadingSpaces(original_line) = p.found
                           THEN Spaces(p.expected) \o Lstrip(original_line)
                           ELSE original_line
         IN  FixLoop_NoCompare(
                 IF in_range THEN [lines EXCEPT ![p.line] = fixed_line] ELSE lines,
                 Tail(problems),
                 Append(log, [line |-> p.line, expected |-> p.expected,
                              found |-> p.found, in_range |-> in_range,
                              before |-> original_line, after |-> fixed_line,
                              applied |-> in_range]))

\* the loop "for problem in sorted_problems"; log records each iteration
RECURSIVE FixLoop(_, _, _)
FixLoop(lines, problems, log) ==
    IF problems = <<>> THEN [lines |-> lines, log |-> log]
    ELSE LET p == Head(problems)
             in_range == 1 <= p.line /\ p.line <= Len(lines)
             original_line == IF in_range THEN lines[p.line] ELSE <<>>
             fixed_line == fix_line_indentation(original_line, p.expected, p.found)
             changed == in_range /\ fixed_line # original_line
         IN  FixLoop(IF changed THEN [lines EXCEPT ![p.line] = fixed_line] ELSE lines,
                     Tail(problems),
                     Append(log, [line |-> p.line, expected |-> p.expected,
                                  found |-> p.found, in_range |-> in_range,
                                  before |-> original_line,
                                  after |-> IF changed THEN fixed_line ELSE original_line,
                                  applied |-> changed]))

\* mutant: the file is written back whether or not a line changed ("if modified"
\* dropped)
fix_file_indentation_AlwaysWrites(files, plat, file_path, problems) ==
    LET path == CanonPath(file_path, plat)
        skip == [ret |-> FALSE, files |-> files, wrote |-> FALSE, log |-> <<>>,
                 raised |-> FALSE]
    IN  IF ~Exists(files, file_path, plat) THEN skip
        ELSE IF files[path].status = "undecodable" THEN skip
        ELSE LET out == FixLoop(ReadLines(files[path].content),
                                sorted_problems(problems), <<>>)
             IN  IF files[path].status = "readonly" THEN [skip EXCEPT !.log = out.log]
                 ELSE [ret |-> TRUE,
                       files |-> [files EXCEPT ![path].content = Concat(out.lines)],
                       wrote |-> TRUE, log |-> out.log, raised |-> FALSE]

\* the result of one call: the return value, the file system after it, whether the
\* file was written, and the log of its loop
fix_file_indentation(files, plat, file_path, problems) ==
    LET path == CanonPath(file_path, plat)
        skip == [ret |-> FALSE, files |-> files, wrote |-> FALSE, log |-> <<>>,
                 raised |-> FALSE]
    IN  IF ~Exists(files, file_path, plat) THEN skip
        ELSE IF files[path].status = "undecodable" THEN skip
        ELSE LET lines == ReadLines(files[path].content)
                 out == FixLoop(lines, sorted_problems(problems), <<>>)
                 modified == \E i \in 1..Len(out.log) : out.log[i].applied
             IN  IF ~modified THEN [skip EXCEPT !.log = out.log]
                 ELSE IF files[path].status = "readonly"
                 THEN [skip EXCEPT !.log = out.log]
                 ELSE [ret |-> TRUE,
                       files |-> [files EXCEPT ![path].content = Concat(out.lines)],
                       wrote |-> TRUE, log |-> out.log, raised |-> FALSE]

----------------------------------------------------------------------------
(* use_new_syntax.py: the patcher *)

\* old_class in span
SpanMatches(span, old_class) == Contains(span, old_class)

\* the result of one call: whether it raised, the file system after it, whether the
\* file was written, which branch it took, and the line before and after
apply_fix(files, plat, fix) ==
    LET path == CanonPath(fix.file_path, plat)
        none == [ret |-> FALSE, files |-> files, wrote |-> FALSE, raised |-> FALSE,
                 log |-> <<>>]
        entry(outcome, before, after, applied) ==
            <<[line |-> fix.line, col_start |-> fix.col_start, col_end |-> fix.col_end,
               old_class |-> fix.old_class, new_class |-> fix.new_class,
               outcome |-> outcome, before |-> before, after |-> after,
               applied |-> applied]>>
    IN  IF ~Exists(files, fix.file_path, plat)
        THEN [none EXCEPT !.log = entry("not_found", <<>>, <<>>, FALSE)]
        ELSE IF files[path].status = "undecodable"
        THEN [none EXCEPT !.raised = TRUE, !.log = entry("read_error", <<>>, <<>>, FALSE)]
        ELSE LET lines == SplitLines(UniversalNewlines(files[path].content))
             IN  IF ~(0 <= fix.line /\ fix.line < Len(lines))
                 THEN [none EXCEPT !.log = entry("line_out_of_bounds", <<>>, <<>>, FALSE)]
                 ELSE LET line_content == lines[fix.line + 1]
                          span == PySlice(line_content, fix.col_start, fix.col_end)
                          new_line == PySlice(line_content, 0, fix.col_start)
                                        \o fix.new_class
                                        \o PySlice(line_content, fix.col_end, Len(line_content))
                          new_lines == [lines EXCEPT ![fix.line + 1] = new_line]
                      IN  IF ~(fix.col_start < Len(line_content)
                                 /\ fix.col_end <= Len(line_content))
                          THEN [none EXCEPT !.log =
                                  entry("range_out_of_bounds", line_content, line_content, FALSE)]
                          ELSE IF ~SpanMatches(span, fix.old_class)
                          THEN [none EXCEPT !.log =
                                  entry("not_in_span", line_content, line_content, FALSE)]
                          ELSE IF files[path].status = "readonly"
                          THEN [none EXCEPT !.raised = TRUE, !.log =
                                  entry("write_error", line_content, new_line, TRUE)]
                          ELSE [ret |-> TRUE,
                                files |-> [files EXCEPT ![path].content =
                                             TextWrite(JoinLF(new_lines) \o <<LF>>, plat)],
                                wrote |-> TRUE, raised |-> FALSE,
                                log |-> entry("fixed", line_content, new_line, TRUE)]

----------------------------------------------------------------------------
(* convert_crlf_to_lf.py *)

\* b'\r\n' in f.read(); an unreadable file answers False
has_crlf(file) ==
    file.status # "unreadable" /\ Contains(file.content, <<CR, LF>>)

\* bytes.replace(b'\r\n', b'\n'): left to right, over the original bytes
RECURSIVE ReplaceCRLF(_)
ReplaceCRLF(content) ==
    IF content = <<>> THEN <<>>
    ELSE IF Len(content) >= 2 /\ content[1] = CR /\ content[2] = LF
         THEN <<LF>> \o ReplaceCRLF(SubSeq(content, 3, Len(content)))
         ELSE <<Head(content)>> \o ReplaceCRLF(Tail(content))

\* the return value and the file after the call
convert_to_lf(file) ==
    IF file.status # "ok" THEN [ret |-> FALSE, file |-> file]
    ELSE [ret |-> TRUE, file |-> [file EXCEPT !.content = ReplaceCRLF(file.content)]]

----------------------------------------------------------------------------
(* The runs *)

NoCall == [op |-> "none", idx |-> 0, path |-> <<>>, status |-> "ok", before |-> <<>>,
           after |-> <<>>, wrote |-> FALSE, ret |-> FALSE, raised |-> FALSE,
           log |-> <<>>]

NoHist(files) == [writes |-> <<0, 0>>, applied |-> <<0, 0>>, calls |-> <<{}, {}>>,
                  after1 |-> files]

Applied(log) == Cardinality({i \in 1..Len(log) : log[i].applied})

Record(h, r, i, n) ==
    [h EXCEPT !.writes[r] = @ + (IF n.wrote THEN 1 ELSE 0),
              !.applied[r] = @ + (IF n.wrote THEN Applied(n.log) ELSE 0),
              !.calls[r] = @ \cup {i}]

\* load_problems + group_indentation_problems + the early return of main;
\* the exists() check + parse_fixes + the early exit of __main__
Start ==
    /\ pc = "start"
    /\ tool \in {"indent", "syntax"}
    /\ LET loaded ==
            IF tool = "indent"
            THEN (IF doc.kind # "json" THEN [raised |-> TRUE, work |-> <<>>]
                  ELSE LET g == group_indentation_problems(doc.value, platform)
                       IN  [raised |-> g.raised, work |-> g.grouped])
            ELSE (IF doc.kind = "missing" THEN [raised |-> TRUE, work |-> <<>>]
                  ELSE LET f == parse_fixes(doc)
                       IN  [raised |-> f.raised, work |-> f.fixes])
       IN  /\ work' = loaded.work
           /\ pc' = IF loaded.raised THEN "failed"
                    ELSE IF loaded.work = <<>> THEN "done" ELSE "fixing"
           /\ exit_code' = IF loaded.raised THEN 1
                           ELSE IF loaded.work = <<>> THEN 0 ELSE -1
    /\ idx' = 1
    /\ UNCHANGED <<tool, platform, doc, fs, run, files_fixed, total_fixes, last, hist>>

\* one iteration of "for file_path, file_problems in grouped_problems.items()"
FixFile ==
    /\ pc = "fixing"
    /\ tool = "indent"
    /\ idx <= Len(work)
    /\ LET g == work[idx]
           r == fix_file_indentation(fs, platform, g.file_path, g.problems)
           path == CanonPath(g.file_path, platform)
           call == [op |-> "fix_file_indentation", idx |-> idx, path |-> path,
                    status |-> IF path \in DOMAIN fs THEN fs[path].status ELSE "missing",
                    before |-> IF path \in DOMAIN fs THEN fs[path].content ELSE <<>>,
                    after |-> IF path \in DOMAIN fs THEN r.files[path].content ELSE <<>>,
                    wrote |-> r.wrote, ret |-> r.ret, raised |-> r.raised, log |-> r.log]
       IN  /\ fs' = r.files
           /\ files_fixed' = IF r.ret THEN files_fixed + 1 ELSE files_fixed
           /\ total_fixes' = IF r.ret THEN total_fixes + Len(g.problems) ELSE total_fixes
           /\ last' = call
           /\ hist' = Record(hist, run, idx, call)
    /\ idx' = idx + 1
    /\ UNCHANGED <<tool, platform, doc, pc, work, run, exit_code>>

\* one iteration of "for fix in fixes: apply_fix(*fix)"; an exception ends the run
ApplyFix ==
    /\ pc = "fixing"
    /\ tool = "syntax"
    /\ idx <= Len(work)
    /\ LET fix == work[idx]
           r == apply_fix(fs, platform, fix)
           path == CanonPath(fix.file_path, platform)
           call == [op |-> "apply_fix", idx |-> idx, path |-> path,
                    status |-> IF path \in DOMAIN fs THEN fs[path].status ELSE "missing",
                    before |-> IF path \in DOMAIN fs THEN fs[path].content ELSE <<>>,
                    after |-> IF path \in DOMAIN fs THEN r.files[path].content ELSE <<>>,
                    wrote |-> r.wrote, ret |-> r.ret, raised |-> r.raised, log |-> r.log]
       IN  /\ fs' = r.files
           /\ last' = call
           /\ hist' = Record(hist, run, idx, call)
           /\ pc' = IF r.raised THEN "failed" ELSE pc
           /\ exit_code' = IF r.raised THEN 1 ELSE exit_code
    /\ idx' = idx + 1
    /\ UNCHANGED <<tool, platform, doc, work, run, files_fixed, total_fixes>>

\* the loop is over: the summary is printed and the script ends with exit code 0
Finish ==
    /\ pc = "fixing"
    /\ idx > Len(work)
    /\ pc' = "done"
    /\ exit_code' = 0
    /\ UNCHANGED <<tool, platform, doc, fs, work, idx, run, files_fixed, total_fixes,
                   last, hist>>

\* the script is run again on the same problems.json
Rerun ==
    /\ pc = "done"
    /\ run = 1
    /\ run' = 2
    /\ pc' = IF tool = "crlf" THEN "fixing" ELSE "start"
    /\ idx' = 1
    /\ work' = IF tool = "crlf" THEN work ELSE <<>>
    /\ files_fixed' = 0
    /\ total_fixes' = 0
    /\ exit_code' = -1
    /\ last' = NoCall
    /\ hist' = [hist EXCEPT !.after1 = fs]
    /\ UNCHANGED <<tool, platform, doc, fs>>

\* one file of scan_and_convert: has_crlf, then convert_to_lf
ScanFile ==
    /\ pc = "fixing"
    /\ tool = "crlf"
    /\ idx <= Len(work)
    /\ LET path == work[idx]
           crlf == has_crlf(fs[path])
           r == IF crlf THEN convert_to_lf(fs[path]) ELSE [ret |-> FALSE, file |-> fs[path]]
           call == [op |-> "convert_to_lf", idx |-> idx, path |-> path,
                    status |-> fs[path].status, before |-> fs[path].content,
                    after |-> r.file.content, wrote |-> crlf /\ r.ret, ret |-> r.ret,
                    raised |-> FALSE,
                    log |-> <<[applied |-> crlf /\ r.ret]>>]
       IN  /\ fs' = [fs EXCEPT ![path] = r.file]
           /\ files_fixed' = IF crlf /\ r.ret THEN files_fixed + 1 ELSE files_fixed
           /\ last' = call
           /\ hist' = Record(hist, run, idx, call)
    /\ idx' = idx + 1
    /\ UNCHANGED <<tool, platform, doc, pc, work, run, total_fixes, exit_code>>

----------------------------------------------------------------------------
(* Inputs *)

MaxIndent == 1   \* leading spaces of a line, and of a diagnostic's expected/found
MaxDiags == 2    \* entries of a diagnostics array
MaxBytes == 4    \* bytes of a file given to the converter

F1 == <<SLASH, "f">>
F2 == <<SLASH, "g">>

SeqsUpTo(S, n) == UNION {[1..k -> S] : k \in 0..n}

Body(n) == Spaces(n) \o <<"a">>

\* F1: two lines; LF-terminated with 0..MaxIndent leading spaces on the first, or
\* one leading space on both and all CRLF, mixed, or an unterminated last line
Contents1 ==
    {Body(n) \o <<LF>> \o Body(1) \o <<LF>> : n \in 0..MaxIndent}
    \cup {Body(1) \o <<CR, LF>> \o Body(1) \o t :
            t \in {<<CR, LF>>, <<LF>>, <<>>}}

Files1 ==
    {[status |-> "ok", content |-> c] : c \in Contents1}
    \cup {[status |-> s, content |-> Body(1) \o <<LF>>] :
            s \in {"missing", "undecodable", "readonly"}}

File2 == [status |-> "ok", content |-> Body(1) \o <<CR, LF>>]

IndentEntry(resource, line, expected, found) ==
    [t |-> "entry", owner |-> "eslint", code |-> [t |-> "object", value |-> "indent"],
     resource |-> [t |-> "string", s |-> resource],
     message |-> [t |-> "string", shape |-> "indent", expected |-> expected,
                  found |-> found],
     startLineNumber |-> line, startColumn |-> 1, endColumn |-> 1]

CanonicalEntry(resource, line, startColumn, endColumn, old, new) ==
    [t |-> "entry", owner |-> Tailwind, code |-> [t |-> "string", s |-> Canonical],
     resource |-> [t |-> "string", s |-> resource],
     message |-> [t |-> "string", shape |-> "canonical", old |-> old, new |-> new],
     startLineNumber |-> line, startColumn |-> startColumn, endColumn |-> endColumn]

\* F1 line 1: every expected/found; line 2 (one leading space): matching and stale;
\* line 3: out of range; F2 line 1 (one leading space): matching
IndentEntries ==
    {IndentEntry(F1, 1, e, f) : e \in 0..MaxIndent, f \in 0..MaxIndent}
    \cup {IndentEntry(F1, 2, 0, f) : f \in {0, 1}}
    \cup {IndentEntry(F1, 3, 0, 1), IndentEntry(F2, 1, 0, 1)}

\* F1 line 1: spans of one column (rewritten to "b" or to "aa") or two columns from
\* every column; line 2: the exact span of "a"; line 3: out of range; F2 line 1:
\* the exact span
CanonicalEntries ==
    {CanonicalEntry(F1, 1, c, c + 1, <<"a">>, n) :
        c \in 1..(MaxIndent + 1), n \in {<<"b">>, <<"a", "a">>}}
    \cup {CanonicalEntry(F1, 1, c, c + 2, <<"a">>, <<"b">>) : c \in 1..(MaxIndent + 1)}
    \cup {CanonicalEntry(F1, 2, 2, 3, <<"a">>, <<"b">>),
          CanonicalEntry(F1, 3, 1, 2, <<"a">>, <<"b">>),
          CanonicalEntry(F2, 1, 2, 3, <<"a">>, <<"b">>)}

ArrayDoc(items) == [kind |-> "json", value |-> [t |-> "array", items |-> items]]

InitRun ==
    /\ pc = "start"
    /\ work = <<>>
    /\ idx = 1
    /\ run = 1
    /\ files_fixed = 0
    /\ total_fixes = 0
    /\ exit_code = -1
    /\ last = NoCall
    /\ hist = NoHist(fs)

\* well-formed diagnostics of the tool's kind against files of every status
Init ==
    /\ tool \in {"indent", "syntax"}
    /\ platform \in (IF tool = "indent" THEN {"posix"} ELSE {"posix", "nt"})
    /\ \E items \in SeqsUpTo(IF tool = "indent" THEN IndentEntries ELSE CanonicalEntries,
                             MaxDiags) : doc = ArrayDoc(items)
    /\ \E f1 \in Files1 : fs = [p \in {F1, F2} |-> IF p = F1 THEN f1 ELSE File2]
    /\ InitRun

Next == Start \/ FixFile \/ ApplyFix \/ Finish \/ Rerun

Spec == Init /\ [][Next]_vars

\* diagnostics documents of every shape against two patchable files
NonArrays ==
    {[t |-> "object", keys |-> <<>>], [t |-> "object", keys |-> <<<<"a">>>>],
     [t |-> "string", s |-> <<>>], [t |-> "string", s |-> <<"a">>],
     [t |-> "number"], [t |-> "null"]}

Codes ==
    {Absent, [t |-> "string", s |-> "no-unused-vars"],
     [t |-> "string", s |-> Canonical], [t |-> "object", value |-> "indent"],
     [t |-> "object", value |-> "semi"]}

Messages ==
    {Absent, [t |-> "string", shape |-> "other"],
     [t |-> "string", shape |-> "indent", expected |-> 0, found |-> 1],
     [t |-> "string", shape |-> "canonical", old |-> <<"a">>, new |-> <<"b">>]}

\* entries about line 1 of F2 (one leading space, then "a" in columns 2 to 3), and
\* array elements that are no objects
DiagItems ==
    {[t |-> "entry", owner |-> o, code |-> c, resource |-> [t |-> "string", s |-> F2],
      message |-> m, startLineNumber |-> 1, startColumn |-> 2, endColumn |-> 3] :
        o \in {NoOwner, Tailwind}, c \in Codes, m \in Messages}
    \cup {[t |-> "number"], [t |-> "string", s |-> <<"a">>]}

Docs ==
    {[kind |-> "missing"], [kind |-> "invalid"]}
    \cup {[kind |-> "json", value |-> v] : v \in NonArrays}
    \cup {ArrayDoc(items) : items \in SeqsUpTo(DiagItems, MaxDiags)}

InitDiag ==
    /\ tool \in {"indent", "syntax"}
    /\ platform \in {"posix", "nt"}
    /\ doc \in Docs
    /\ fs = [p \in {F1, F2} |->
                IF p = F1 THEN [status |-> "ok", content |-> Body(0) \o <<LF>>] ELSE File2]
    /\ InitRun

SpecDiag == InitDiag /\ [][Next]_vars

\* the converter over a tree of two files: F1 of any bytes, F2 with a CRLF and a
\* status
Bytes == SeqsUpTo({"a", CR, LF}, MaxBytes)

InitCrlf ==
    /\ tool = "crlf"
    /\ platform \in {"posix", "nt"}
    /\ doc = [kind |-> "missing"]
    /\ \E b \in Bytes, st \in {"ok", "readonly", "unreadable"} :
          fs = [p \in {F1, F2} |->
                  IF p = F1 THEN [status |-> "ok", content |-> b]
                  ELSE [status |-> st, content |-> <<"a", CR, LF>>]]
    /\ pc = "fixing"
    /\ work = <<F1, F2>>
    /\ idx = 1
    /\ run = 1
    /\ files_fixed = 0
    /\ total_fixes = 0
    /\ exit_code = -1
    /\ last = NoCall
    /\ hist = NoHist(fs)

NextCrlf == ScanFile \/ Finish \/ Rerun

SpecCrlf == InitCrlf /\ [][NextCrlf]_vars

\* span edits against a line holding the old text twice: F1 is "a a" then " a"
TwoSpans == <<"a", SP, "a", LF>> \o Body(1) \o <<LF>>

\* (startColumn, endColumn) on line 1 of F1: the first "a", the second "a", a start
\* column 0, an end column 0, an end before the start, and columns past the line
SpanColumns == {<<1, 2>>, <<3, 4>>, <<0, 4>>, <<1, 0>>, <<3, 2>>, <<4, 5>>}

\* the replacement keeps the length ("b") or changes it ("bb")
SpanEntries ==
    {CanonicalEntry(F1, 1, c[1], c[2], <<"a">>, n) :
        c \in SpanColumns, n \in {<<"b">>, <<"b", "b">>}}
    \cup {CanonicalEntry(F1, 2, 2, 3, <<"a">>, <<"b">>)}

InitEdits ==
    /\ tool \in {"indent", "syntax"}
    /\ platform = "posix"
    /\ \E items \in SeqsUpTo(IF tool = "indent" THEN IndentEntries ELSE SpanEntries,
                             MaxDiags) : doc = ArrayDoc(items)
    /\ fs = [p \in {F1, F2} |->
                IF p = F1 THEN [status |-> "ok", content |-> TwoSpans] ELSE File2]
    /\ InitRun

SpecEdits == InitEdits /\ [][Next]_vars

\* resources as VS Code exports them: with a drive letter of either case after a
\* leading slash, and POSIX absolute paths
DriveFile == <<"K", ":", SLASH, "f">>

PathResources ==
    {<<SLASH, d, ":", SLASH, "f">> : d \in {"K", "k", "C"}} \cup {F1, F2}

InitPaths ==
    /\ tool \in {"indent", "syntax"}
    /\ platform \in {"posix", "nt"}
    /\ \E items \in SeqsUpTo(
            IF tool = "indent"
            THEN {IndentEntry(r, 1, 0, 1) : r \in PathResources}
            ELSE {CanonicalEntry(r, 1, 2, 3, <<"a">>, <<"b">>) : r \in PathResources},
            MaxDiags) : doc = ArrayDoc(items)
    /\ fs = [p \in {F1, F2, DriveFile} |-> File2]
    /\ InitRun

SpecPaths == InitPaths /\ [][Next]_vars

----------------------------------------------------------------------------
(* Vocabulary of the properties *)

Patchers == {"fix_file_indentation", "apply_fix"}

\* the run in progress has ended, normally or not
RunEnded == pc \in {"done", "failed"}

\* the run ended while loading or parsing the diagnostics, before any handler call
StartFailed == pc = "failed" /\ last.op = "none"

\* the 1-based number of the line a log entry is about
TargetLine(op, e) == IF op = "apply_fix" THEN e.line + 1 ELSE e.line

\* the terminator a line (as read with its terminator) ends with
Terminator(line) ==
    IF Len(line) >= 2 /\ SubSeq(line, Len(line) - 1, Len(line)) = <<CR, LF>> THEN <<CR, LF>>
    ELSE IF line # <<>> /\ line[Len(line)] = LF THEN <<LF>>
    ELSE IF line # <<>> /\ line[Len(line)] = CR THEN <<CR>>
    ELSE <<>>

\* a line without its terminator
Chomp(line) == SubSeq(line, 1, Len(line) - Len(Terminator(line)))

\* the entries of the diagnostics array, when the document is one
DocItems == IF doc.kind = "json" /\ doc.value.t = "array" THEN doc.value.items ELSE <<>>

\* no two diagnostics of the document target the same line of the same file
DistinctTargets ==
    \A i, j \in 1..Len(DocItems) :
        (i # j /\ DocItems[i].t = "entry" /\ DocItems[j].t = "entry")
            => \/ DocItems[i].resource # DocItems[j].resource
               \/ DocItems[i].startLineNumber # DocItems[j].startLineNumber

\* in the files as given, no fix of the run finds its old text in its span any more
SpansStale(files) ==
    \A i \in 1..Len(work) :
        LET path == CanonPath(work[i].file_path, platform)
            lines == SplitLines(UniversalNewlines(files[path].content))
        IN  (path \in DOMAIN files /\ 0 <= work[i].line /\ work[i].line < Len(lines))
                => ~Contains(PySlice(lines[work[i].line + 1], work[i].col_start,
                                     work[i].col_end), work[i].old_class)

----------------------------------------------------------------------------
(* C1: a second complete run with the same diagnostics applies no edit, performs no *)
(* write and leaves every file as the first run left it.                           *)

----------------------------------------------------------------------------
(* C2: when an edit is applied, the target line is the replacement and every other *)
(* line, terminator included, is byte-identical to the original.                   *)

\* the line an applied edit must leave, terminator included
Replacement(op, e, line) ==
    IF op = "apply_fix"
    THEN SubSeq(Chomp(line), 1, e.col_start) \o e.new_class
            \o SubSeq(Chomp(line), e.col_end + 1, Len(Chomp(line))) \o Terminator(line)
    ELSE Spaces(e.expected) \o Lstrip(line)

\* C2: a written file holds, on each line one applied edit targets, that edit's
\* replacement, and on every other line the bytes it held before, terminator included
C2_EffectAndFrame ==
    (last.op \in Patchers /\ last.wrote)
        => LET before == ReadLines(last.before)
               after == ReadLines(last.after)
               hits(n) == {k \in 1..Len(last.log) :
                             last.log[k].applied /\ TargetLine(last.op, last.log[k]) = n}
           IN  /\ Len(after) = Len(before)
               /\ \A n \in 1..Len(before) :
                    /\ hits(n) = {} => after[n] = before[n]
                    /\ \A k \in hits(n) :
                         hits(n) = {k} =>
                            after[n] = Replacement(last.op, last.log[k], before[n])

----------------------------------------------------------------------------
(* C3: after a successful patch every line keeps the terminator it had.            *)

\* the terminators of the lines of a file, in order
Terminators_of(content) ==
    [n \in 1..Len(ReadLines(content)) |-> Terminator(ReadLines(content)[n])]

\* C3: after a patch was written, every line has the terminator it had before
C3_TerminatorsKept ==
    (last.op \in Patchers /\ last.wrote)
        => Terminators_of(last.after) = Terminators_of(last.before)

----------------------------------------------------------------------------
(* C4: a file is written only if an edit for it was applied; a call whose edits    *)
(* are all skipped leaves the file alone, and fix_file_indentation returns False.  *)

\* C4: a call writes only if it applied an edit; a call that applied none leaves
\* the file as it was, and fix_file_indentation then returns False
C4_NoWriteWithoutEdit ==
    /\ last.op \in Patchers =>
        /\ last.wrote => Applied(last.log) > 0
        /\ ~last.wrote => last.after = last.before
        /\ (last.op = "fix_file_indentation" /\ Applied(last.log) = 0) => ~last.ret
    /\ \A r \in 1..2 : hist.writes[r] <= hist.applied[r]

\* a call on an existing file in which every edit was skipped
C4_Witness ==
    /\ last.op \in Patchers
    /\ last.status = "ok"
    /\ last.log # <<>>
    /\ Applied(last.log) = 0
    /\ ~last.wrote
    /\ ~last.ret

----------------------------------------------------------------------------
(* C5: apply_fix replaces the span only if the span's text equals the old text.    *)

\* C5: apply_fix applies its edit only if the span [col_start, col_end) of the line
\* equals old_class
C5_SpanEqualsOld ==
    (last.op = "apply_fix" /\ last.log[1].applied)
        => PySlice(last.log[1].before, last.log[1].col_start, last.log[1].col_end)
              = last.log[1].old_class

----------------------------------------------------------------------------
(* C7: a failure on one file never aborts the run: when the run ends, every group  *)
(* (every fix) of the diagnostics has been handed to its handler.                  *)

\* C7: when a run that got past parsing ends, every group (fix) was handed to its
\* handler, whatever failed on the earlier files
C7_EveryFileProcessed ==
    (RunEnded /\ ~StartFailed) => hist.calls[run] = 1..Len(work)

----------------------------------------------------------------------------
(* C10: in fix_file_indentation an edit whose line does not have `found` leading   *)
(* spaces leaves the line unchanged, and every edit whose line has them is applied *)
(* in the same call, whatever the other edits of the file are.                     *)

\* C10: each edit of a fix_file_indentation call finds the line as the earlier edits
\* of that line left it, leaves it unchanged when its leading spaces differ from
\* `found` and re-indents it to `expected` otherwise
C10_StaleSkippedOthersApplied ==
    (last.op = "fix_file_indentation" /\ last.status = "ok")
        => LET before == ReadLines(last.before)
               after == ReadLines(last.after)
               log == last.log
               \* the entries about line n, in the order of application
               on(n) == {k \in 1..Len(log) : log[k].in_range /\ log[k].line = n}
           IN  /\ Len(after) = Len(before)
               /\ \A k \in 1..Len(log) :
                    log[k].in_range =>
                       /\ log[k].line \in 1..Len(before)
                       \* the line as this edit finds it
                       /\ log[k].before =
                            IF \E j \in on(log[k].line) : j < k
                            THEN log[CHOOSE j \in on(log[k].line) :
                                       j < k /\ \A i \in on(log[k].line) : i < k => i <= j].after
                            ELSE before[log[k].line]
                       \* stale: unchanged; matching: re-indented
                       /\ log[k].after =
                            IF LeadingSpaces(log[k].before) = log[k].found
                            THEN Spaces(log[k].expected) \o Lstrip(log[k].before)
                            ELSE log[k].before
               \* what the file holds afterwards is what the last edit of each line left
               /\ \A n \in 1..Len(before) :
                    after[n] = IF on(n) = {} THEN before[n]
                               ELSE log[CHOOSE j \in on(n) : \A i \in on(n) : i <= j].after

\* one call skipped a stale edit and applied another edit of the same file
C10_Witness ==
    /\ last.op = "fix_file_indentation"
    /\ last.wrote
    /\ \E k \in 1..Len(last.log) :
          /\ last.log[k].in_range
          /\ LeadingSpaces(last.log[k].before) # last.log[k].found
          /\ last.log[k].after = last.log[k].before
    /\ \E k \in 1..Len(last.log) :
          /\ last.log[k].applied
          /\ LeadingSpaces(ReadLines(last.after)[last.log[k].line]) = last.log[k].expected

----------------------------------------------------------------------------
(* C6: entries of an unrecognized kind are dropped without raising, whatever the   *)
(* shape of their fields, and every recognized, parseable entry is returned.       *)

\* the entry is of the kind the running tool handles
Recognized(e) ==
    IF tool = "indent"
    THEN e.code.t = "object" /\ e.code.value = "indent"
    ELSE e.owner = Tailwind /\ e.code.t = "string" /\ e.code.s = Canonical

\* the entry's message matches the tool's pattern
Parseable(e) ==
    /\ e.message.t = "string"
    /\ e.message.shape = (IF tool = "indent" THEN "indent" ELSE "canonical")

\* the number of records the parser returned
Returned ==
    IF tool = "indent"
    THEN Len(Concat([i \in 1..Len(work) |-> work[i].problems]))
    ELSE Len(work)

\* C6: for an array of diagnostic objects, parsing does not raise and returns one
\* record per recognized, parseable entry
C6_UnrecognizedSkipped ==
    (/\ doc.kind = "json"
     /\ doc.value.t = "array"
     /\ \A i \in 1..Len(DocItems) : DocItems[i].t = "entry"
     /\ pc # "start")
        => /\ ~StartFailed
           /\ Returned = Cardinality({i \in 1..Len(DocItems) :
                                        Recognized(DocItems[i]) /\ Parseable(DocItems[i])})

----------------------------------------------------------------------------
(* C8: a diagnostics document that is missing, is no JSON, or is no array of       *)
(* diagnostic objects ends the run with exit code 1 before any file is written.    *)

\* the document is missing, no JSON, or no array of diagnostic objects
Malformed ==
    \/ doc.kind # "json"
    \/ doc.value.t # "array"
    \/ \E i \in 1..Len(DocItems) : DocItems[i].t # "entry"

\* C8: with a malformed diagnostics document no file is ever written and the run
\* ends with exit code 1
C8_MalformedAborts ==
    Malformed => /\ hist.writes = <<0, 0>>
                 /\ RunEnded => exit_code = 1

----------------------------------------------------------------------------
(* C9: after convert_to_lf returns True the file holds no CR LF pair, so a second  *)
(* scan converts nothing.                                                          *)

\* C9: a converted file holds no CR LF pair, and the second scan writes nothing
C9_NoCrlfLeft ==
    /\ (last.op = "convert_to_lf" /\ last.ret) => ~Contains(last.after, <<CR, LF>>)
    /\ (\A p \in DOMAIN fs : fs[p].status = "ok") => hist.writes[2] = 0

----------------------------------------------------------------------------
(* C11: the edits of one file are applied in descending line number and, on one    *)
(* line, in descending column_start, whatever the order of the document; so two    *)
(* non-overlapping span edits of one line that both match the original line are    *)
(* both applied, each at its original text.                                        *)

\* the line with the span [col_start, col_end) of a fix replaced by its new text
Rewritten(line, fix) ==
    SubSeq(line, 1, fix.col_start) \o fix.new_class \o SubSeq(line, fix.col_end + 1, Len(line))

\* the fix is in bounds on the line and its span holds exactly its old text
SpanIsOld(line, fix) ==
    /\ 0 <= fix.col_start
    /\ fix.col_start <= fix.col_end
    /\ fix.col_end <= Len(line)
    /\ SubSeq(line, fix.col_start + 1, fix.col_end) = fix.old_class

\* C11: the calls of a run and the edits of a call come in descending line, then
\* descending column_start; two disjoint fixes of one line whose spans hold their old
\* text in the original line are both applied, and the line ends as the original
\* with both spans rewritten
C11_DescendingOrder ==
    /\ (last.op = "fix_file_indentation")
          => \A i, j \in 1..Len(last.log) : i < j => last.log[i].line >= last.log[j].line
    /\ (tool = "syntax" /\ pc = "done")
          => \A i, j \in 1..Len(work) :
                (i < j /\ work[i].file_path = work[j].file_path)
                    => \/ work[i].line > work[j].line
                       \/ /\ work[i].line = work[j].line
                          /\ work[i].col_start >= work[j].col_start
    /\ (tool = "syntax" /\ pc = "done" /\ run = 1 /\ Len(work) = 2)
          => LET path == CanonPath(work[1].file_path, platform)
                 orig == SplitLines(UniversalNewlines(hist.after1[path].content))
                 now == SplitLines(UniversalNewlines(fs[path].content))
                 n == work[1].line + 1
                 hi == IF work[1].col_start > work[2].col_start THEN work[1] ELSE work[2]
                 lo == IF work[1].col_start > work[2].col_start THEN work[2] ELSE work[1]
             IN  (/\ work[1].file_path = work[2].file_path
                  /\ work[1].line = work[2].line
                  /\ n \in 1..Len(orig)
                  /\ SpanIsOld(orig[n], hi)
                  /\ SpanIsOld(orig[n], lo)
                  /\ lo.col_end <= hi.col_start)
                   => /\ hist.applied[1] = 2
                      /\ now[n] = Rewritten(Rewritten(orig[n], hi), lo)

----------------------------------------------------------------------------
(* C12: the total that fix_indentation.main reports equals the number of edits     *)
(* applied to a line during the run.                                               *)

\* C12: when a run of fix_indentation.py ends, total_fixes is the number of edits the
\* run applied; skipped edits of a file that had another edit applied do not count
C12_TotalIsApplied ==
    (tool = "indent" /\ pc = "done") => total_fixes = hist.applied[run]

----------------------------------------------------------------------------
(* C13: apply_fix applies an edit only if its line and its columns are in bounds:  *)
(* 0 <= line < number of lines and 0 <= col_start <= col_end <= length of the line *)
(* (0-based); an edit out of bounds is skipped without raising or writing.         *)

\* the 0-based line and columns of a fix are in bounds on the file as the call read it
InBounds(content, e) ==
    LET lines == SplitLines(UniversalNewlines(content))
    IN  /\ 0 <= e.line
        /\ e.line < Len(lines)
        /\ 0 <= e.col_start
        /\ e.col_start <= e.col_end
        /\ e.col_end <= Len(lines[e.line + 1])

\* C13: a call of apply_fix on a readable file applies its edit only if the edit is
\* in bounds, and an edit out of bounds neither raises nor writes
C13_AppliedInBounds ==
    (last.op = "apply_fix" /\ last.status = "ok")
        => /\ last.log[1].applied => InBounds(last.before, last.log[1])
           /\ ~InBounds(last.before, last.log[1]) => (~last.wrote /\ ~last.raised)

----------------------------------------------------------------------------
(* C14: a resource '/' + drive letter + ':/' + rest is opened with the one leading *)
(* slash dropped and the drive letter kept, by both parsers; a POSIX absolute path *)
(* keeps its leading slash.                                                        *)

\* the resource has the form '/' + drive letter + ':/' + rest
DriveForm(raw) ==
    /\ Len(raw) >= 4
    /\ raw[1] = SLASH
    /\ raw[2] \in Letters
    /\ raw[3] = ":"
    /\ raw[4] = SLASH

\* the file a resource must name
Normalized(raw) == IF DriveForm(raw) THEN Tail(raw) ELSE raw

\* C14: once the diagnostics are parsed, the files the run will open are those the
\* resources name after normalization
C14_DriveLetterNormalized ==
    (pc \in {"fixing", "done"} /\ tool \in {"indent", "syntax"})
        => {CanonPath(work[i].file_path, platform) : i \in 1..Len(work)}
             = {Normalized(DocItems[i].resource.s) : i \in 1..Len(DocItems)}

====
